---- MODULE Spec2Model ----
(***************************************************************************)
(* The lite-format AES-GCM crypt stream (src/sources/lite_stream.cpp):     *)
(* the inner byte stream, the crypt stream object built over it, and the   *)
(* block operations read_block / write_block / size / adjust_logical_size. *)
(*                                                                         *)
(* Bytes are modelled symbolically.  A cell of the inner stream is a pad   *)
(* XOR a concrete byte: the pad is empty (a plain byte), a GCM keystream   *)
(* byte KS(key, iv, k), or a GCM tag byte TAG(key, iv, aad, text, j).      *)
(* Pads of different arguments are different and never cancel (perfect    *)
(* cryptography); flipping a bit flips it in the concrete byte.            *)
(*                                                                         *)
(* The FUSE callbacks (src/sources/lite_operations.cpp) are modelled over  *)
(* it: the operation table, the file lock around the data-bearing          *)
(* callbacks and the per-thread facades; and the utilities the unit tests  *)
(* exercise (src/unnamed/part_000): base32, split, endian conversion.      *)
(***************************************************************************)
EXTENDS Integers, Sequences, FiniteSets, TLC

VARIABLES inner,     \* the bytes of the inner stream (m_stream), a sequence of cells
          cs,        \* the crypt stream object, NoStream before construction
          ret,       \* the outcome of the most recent call
          logical,   \* history: the length last set by adjust_logical_size, -1 if
                     \* the inner stream was written otherwise since
          written,   \* history: per block index, the write_block calls it received
          tampered,  \* history: how the stored bytes of which blocks were changed
                     \* behind the crypt stream's back
          writes,    \* history: the number of write_block calls that stored a block
          fuse,      \* the callback layer: the mount options, the thread's
                     \* facade (opt_fs) and the host's file and directory handles
          file,      \* the File objects and the worker threads inside their
                     \* data-bearing callbacks: positions, locks held, streams in use
          pool       \* the mounts and the per-thread facades of the worker threads

vars == <<inner, cs, ret, logical, written, tampered, writes, fuse, file, pool>>

----------------------------------------------------------------------------
(* Bounds of the model *)

\* the largest inner-stream size drawn for the size arithmetic
MaxUnderlying == 160
\* the largest logical length passed to adjust_logical_size
MaxLogical == 40
\* block sizes MinBlockSize .. MinBlockSize + BlockSizeSpan are drawn
BlockSizeSpan == 1
\* blocks 0 .. MaxBlock are written
MaxBlock == 1
\* at most MaxWrites write_block calls store a block
MaxWrites == 2
\* inner streams of 0 .. MaxInitial bytes are opened
MaxInitial == 152
\* the worker threads of the host are 1 .. MaxThreads
MaxThreads == 2
\* at most MaxMounts mounts are made, one after the other
MaxMounts == 2
\* at most MaxFacades facades are constructed
MaxFacades == 3
\* greatest name length limit of the host file system
MaxHostNamemax == 255
\* greatest length of the byte strings given to base32_encode
MaxBytes == 5
\* greatest length of the strings given to split
MaxStr == 5

----------------------------------------------------------------------------
(* Program constants *)

header_size == 32
mac_size == 16
MinIvSize == 12
MaxIvSize_wide == MinIvSize * 3
MaxIvSize == 32
MinBlockSize == 32

get_underlying_block_size_no_iv(block_size, iv_size) == block_size + mac_size
get_underlying_block_size(block_size, iv_size) == block_size + iv_size + mac_size

----------------------------------------------------------------------------
(* Bytes and byte strings *)

Min(a, b) == IF a < b THEN a ELSE b

NoPad == <<>>
Plain(b) == [m |-> NoPad, v |-> b]
Zero == Plain(0)
Zeros(n) == [k \in 1..n |-> Zero]

is_all_zeros(buf) == \A k \in 1..Len(buf) : buf[k] = Zero

----------------------------------------------------------------------------
(* The inner stream: read is short at the end, a write past the end fills   *)
(* the gap with zeros, resize truncates or zero-extends.                    *)

StreamRead(s, off, len) ==
    IF off >= Len(s) THEN <<>> ELSE SubSeq(s, off + 1, Min(Len(s), off + len))

StreamWrite(s, off, data) ==
    LET padded == IF Len(s) < off THEN s \o Zeros(off - Len(s)) ELSE s
    IN  SubSeq(padded, 1, off) \o data
            \o SubSeq(padded, off + Len(data) + 1, Len(padded))

StreamResize(s, n) ==
    IF n <= Len(s) THEN SubSeq(s, 1, n) ELSE s \o Zeros(n - Len(s))

----------------------------------------------------------------------------
(* Size arithmetic *)

calculate_real_size_no_overhead(underlying_size, block_size, iv_size) ==
    IF underlying_size <= header_size
    THEN 0
    ELSE LET u == underlying_size - header_size
             num_blocks == u \div block_size
             residue == u % block_size
         IN  num_blocks * block_size
               + (IF residue > iv_size + mac_size
                  THEN residue - iv_size - mac_size ELSE 0)

calculate_real_size(underlying_size, block_size, iv_size) ==
    LET underlying_block_size == block_size + iv_size + mac_size
    IN  IF underlying_size <= header_size
        THEN 0
        ELSE LET u == underlying_size - header_size
                 num_blocks == u \div underlying_block_size
                 residue == u % underlying_block_size
             IN  num_blocks * block_size
                   + (IF residue > iv_size + mac_size
                      THEN residue - iv_size - mac_size ELSE 0)

adjusted_size_no_overhead(length, block_size, iv_size) ==
    LET new_blocks == length \div block_size
        residue == length % block_size
    IN  header_size + new_blocks * get_underlying_block_size(block_size, iv_size)
          + residue

adjusted_size(length, block_size, iv_size) ==
    LET new_blocks == length \div block_size
        residue == length % block_size
    IN  header_size + new_blocks * get_underlying_block_size(block_size, iv_size)
          + (IF residue > 0 THEN residue + iv_size + mac_size ELSE 0)

----------------------------------------------------------------------------
(* Outcomes of calls *)

\* master: history, the master key the object was constructed with
NoStream == [alive |-> FALSE, block_size |-> 0, iv_size |-> 0, key |-> <<>>,
             check |-> FALSE, master |-> ""]

W(hi, lo) == [hi |-> hi, lo |-> lo]

\* op: the call; args: its arguments; val: the value returned; out: the bytes
\* it stored in the caller's buffer; err: the exception it ended with ("" when
\* it returned)
Outcome(op, args, val, out, err) ==
    [op |-> op, args |-> args, val |-> val, out |-> out, err |-> err]
\* the callback layer before any mount; files: the File objects allocated
NoMount ==
    [version |-> 0, key_size |-> 0, opt_fs |-> FALSE, fh |-> 0, dh |-> 0, files |-> 0]

Threads == 1..MaxThreads

\* the File objects: 0 is the File of the handle (info->fh) the threads share,
\* t is the temporary File thread t opens in truncate(path, len)
Files == 0..MaxThreads

\* no thread is inside a data-bearing callback, no File is locked
NoFile ==
    [pc |-> [t \in Threads |-> "idle"],
     op |-> [t \in Threads |-> "none"],
     target |-> [t \in Threads |-> 0],
     readers |-> [f \in Files |-> {}],
     writers |-> [f \in Files |-> {}],
     users |-> [f \in Files |-> {}],
     result |-> [t \in Threads |-> 0],
     open |-> {}]

\* no mount, no facade
NoPool ==
    [has_thread_local |-> TRUE,
     mount |-> [epoch |-> 0, version |-> 0, key_size |-> 0, ctx |-> FALSE],
     opt_fs |-> [t \in Threads |-> 0],
     specific |-> [t \in Threads |-> [k \in 1..MaxMounts |-> 0]],
     facades |-> {},
     alive |-> {},
     given |-> {},
     exited |-> {},
     built |-> 0,
     last |-> [thread |-> 0, throws |-> "", facade |-> 0]]

NoCall == Outcome("none", <<>>, 0, <<>>, "")

\* history of one block: n, p, key: the length, plaintext and session key of the
\* latest write_block; maxn: the longest write_block it ever received
\* master: the master key of the stream that wrote it; reopened: the stream was
\* constructed again since
NoWrite == [n |-> 0, p |-> <<>>, key |-> <<>>, maxn |-> 0, master |-> "",
            reopened |-> FALSE]

----------------------------------------------------------------------------
(* 64-bit block numbers and offsets, as hi * 2^31 + lo with 0 <= lo < 2^31  *)

MAX_BLOCKS_one_less == W(0, 2147483646)

MAX_BLOCKS == W(0, 2147483647)

WGreater(a, b) == a.hi > b.hi \/ (a.hi = b.hi /\ a.lo > b.lo)

\* b * m + c for m < 2^15 and c < 2^15
WMulAdd(b, m, c) ==
    LET a == b.lo \div 65536
        l == b.lo % 65536
        am == a * m
        x == (am % 32768) * 65536
        y == l * m + c
        carry == y > 2147483647 - x
    IN  W(b.hi * m + am \div 32768 + (IF carry THEN 1 ELSE 0),
          IF carry THEN y - (2147483647 - x) - 1 ELSE x + y)

\* a read of the inner stream at a 64-bit offset
StreamReadAt(s, off, len) ==
    IF off.hi > 0 THEN <<>> ELSE StreamRead(s, off.lo, len)

\* a uint32 is the wide number W(hi, lo) = hi * 2^31 + lo with hi in 0..1
\* the uint32 a 64-bit number is cast to
uint32_t(x) == W(x.hi % 2, x.lo)

\* to_little_endian of a uint32: least significant byte first
to_little_endian_msb_first(x) ==
    <<(x.lo \div 16777216) + 128 * x.hi, (x.lo \div 65536) % 256,
      (x.lo \div 256) % 256, x.lo % 256>>
to_little_endian(x) ==
    <<x.lo % 256, (x.lo \div 256) % 256, (x.lo \div 65536) % 256,
      (x.lo \div 16777216) + 128 * x.hi>>

\* from_little_endian: the uint32 whose least significant byte is raw[1]
from_little_endian(raw) ==
    W(raw[4] \div 128,
      raw[1] + 256 * raw[2] + 65536 * raw[3] + 16777216 * (raw[4] % 128))

----------------------------------------------------------------------------
(* Cryptography *)

\* run-length form of a byte string: an injective, compact name for it
RunLength(s) ==
    LET other == {k \in 1..Len(s) : s[k] # s[1]}
    IN  IF other = {} THEN Len(s)
        ELSE (CHOOSE k \in other : \A j \in other : k <= j) - 1

RECURSIVE Pack(_)
Pack(s) ==
    IF s = <<>> THEN <<>>
    ELSE LET n == RunLength(s)
         IN  << <<s[1], n>> >> \o Pack(SubSeq(s, n + 1, Len(s)))

\* the decryption of a byte that is not under the expected keystream
Garbage == [m |-> <<"garbage">>, v |-> 0]

ECB_fixed_key(master_key, header) == <<"K1", Pack(header)>>

\* AES-ECB of the header under the master key
ECB(master_key, header) == <<master_key, Pack(header)>>

KeystreamPad(key, iv, k) == <<"ks", key, Pack(iv), k>>
TagPad(key, iv, aad, text, j) == <<"tag", key, Pack(iv), aad, Pack(text), j>>

\* GCM: ciphertext byte k is the plaintext byte XOR the keystream byte k
GcmEncrypt(key, iv, text) ==
    [k \in 1..Len(text) |-> [m |-> KeystreamPad(key, iv, k), v |-> text[k].v]]

GcmDecrypt(key, iv, ct) ==
    [k \in 1..Len(ct) |->
        IF ct[k].m = KeystreamPad(key, iv, k) THEN Plain(ct[k].v) ELSE Garbage]

GcmTag(key, iv, aad, text) ==
    [j \in 1..mac_size |-> [m |-> TagPad(key, iv, aad, text, j), v |-> 0]]

\* EncryptAndAuthenticate: the ciphertext followed by the tag
EncryptAndAuthenticate(key, iv, aad, text) ==
    GcmEncrypt(key, iv, text) \o GcmTag(key, iv, aad, text)

DecryptAndVerify_unverified(key, iv, aad, ct, tag) ==
    [text |-> GcmDecrypt(key, iv, ct), success |-> TRUE]

\* DecryptAndVerify: the decrypted bytes, and whether the tag verifies
DecryptAndVerify(key, iv, aad, ct, tag) ==
    LET text == GcmDecrypt(key, iv, ct)
    IN  [text |-> text,
         success |-> /\ \A k \in 1..Len(text) : text[k] # Garbage
                     /\ tag = GcmTag(key, iv, aad, text)]

\* generate_random fills a buffer; the fills drawn here are constant bytes
RandomBytes == {0, 1}
generate_random(n) == {[k \in 1..n |-> Plain(r)] : r \in RandomBytes}

----------------------------------------------------------------------------
(* The crypt stream *)

Stream(master_key, header, block_size, iv_size, check) ==
    [alive |-> TRUE, block_size |-> block_size, iv_size |-> iv_size,
     key |-> ECB(master_key, header), check |-> check, master |-> master_key]

\* rc == 0: the inner stream holds no header yet
HeaderAbsent(rc) == rc = 0

HeaderInvalid_never(rc) == rc > header_size

\* rc != header.size(): the inner stream holds part of a header
HeaderInvalid(rc) == rc # header_size

\* AESGCMCryptStream::AESGCMCryptStream; a constructor that throws leaves no object
Construct(null_stream, master_key, block_size, iv_size, check) ==
    LET args == <<null_stream, master_key, block_size, iv_size, check>>
        Throw(e) == /\ cs' = NoStream
                    /\ ret' = Outcome("construct", args, 0, <<>>, e)
                    /\ UNCHANGED <<inner, written>>
        Return == /\ ret' = Outcome("construct", args, 0, <<>>, "")
                  /\ written' = [b \in DOMAIN written |->
                                   [written[b] EXCEPT !.reopened = (written[b].n > 0)]]
    IN  /\ IF iv_size < MinIvSize \/ iv_size > MaxIvSize
           THEN Throw("InvalidArgument")
           ELSE IF null_stream
           THEN Throw("InvalidArgument")
           ELSE IF block_size < MinBlockSize
           THEN Throw("InvalidArgument")
           ELSE LET header == StreamRead(inner, 0, header_size)
                    rc == Len(header)
                IN  IF HeaderAbsent(rc)
                    THEN \E fresh \in generate_random(header_size) :
                            /\ inner' = StreamWrite(inner, 0, fresh)
                            /\ cs' = Stream(master_key, fresh, block_size, iv_size,
                                            check)
                            /\ Return
                    ELSE IF HeaderInvalid(rc)
                    THEN Throw("InvalidArgument")
                    ELSE /\ inner' = inner
                         /\ cs' = Stream(master_key, header, block_size, iv_size,
                                         check)
                         /\ Return
        /\ UNCHANGED <<logical, tampered, writes, fuse, file, pool>>

\* the block number check of read_block and write_block
TooLong(block_number) == WGreater(block_number, MAX_BLOCKS)

BlockOffset_no_header(block_number, underlying_block_size) ==
    WMulAdd(block_number, underlying_block_size, 0)

\* where block block_number starts in the inner stream
BlockOffset(block_number, underlying_block_size) ==
    WMulAdd(block_number, underlying_block_size, header_size)

OutSize_no_mac(rc, iv_size) == rc - iv_size

\* the plaintext length of a stored block of rc bytes
OutSize(rc, iv_size) == rc - iv_size - mac_size

Auxiliary_unbound(block_number) == to_little_endian(W(0, 0))

\* the associated data of a block: its number as a little-endian uint32
Auxiliary(block_number) == to_little_endian(uint32_t(block_number))

\* if (m_check && !success) throw LiteMessageVerificationException()
VerificationFails_always(check, success) == ~success
VerificationFails(check, success) == check /\ ~success

\* AESGCMCryptStream::read_block
ReadBlock(block_number) ==
    LET Result(val, out, e) == Outcome("read_block", <<block_number>>, val, out, e)
        underlying_block_size == get_underlying_block_size(cs.block_size, cs.iv_size)
    IN  /\ cs.alive
        /\ IF TooLong(block_number)
           THEN ret' = Result(0, <<>>, "StreamTooLong")
           ELSE LET buffer == StreamReadAt(inner,
                                  BlockOffset(block_number, underlying_block_size),
                                  underlying_block_size)
                    rc == Len(buffer)
                    out_size == OutSize(rc, cs.iv_size)
                    auxiliary == Auxiliary(block_number)
                IN  IF rc <= mac_size + cs.iv_size
                    THEN ret' = Result(0, <<>>, "")
                    ELSE IF rc > underlying_block_size
                    THEN ret' = Result(0, <<>>, "InvalidArgument")
                    ELSE IF is_all_zeros(buffer)
                    THEN ret' = Result(out_size, Zeros(cs.block_size), "")
                    ELSE LET d == DecryptAndVerify(cs.key,
                                      SubSeq(buffer, 1, cs.iv_size), auxiliary,
                                      SubSeq(buffer, cs.iv_size + 1, rc - mac_size),
                                      SubSeq(buffer, rc - mac_size + 1, rc))
                         IN  IF VerificationFails(cs.check, d.success)
                             THEN ret' = Result(0, <<>>, "MessageVerification")
                             ELSE ret' = Result(out_size, d.text, "")
        /\ UNCHANGED <<inner, cs, logical, written, tampered, writes, fuse, file, pool>>

Max(a, b) == IF a > b THEN a ELSE b

\* do generate_random(iv) while (is_all_zeros(iv)): the IVs the loop ends with
DrawIv_first(iv_size) == generate_random(iv_size)
DrawIv(iv_size) == {iv \in generate_random(iv_size) : ~is_all_zeros(iv)}

\* AESGCMCryptStream::write_block; the model stores blocks 0..MaxBlock only, and
\* at most MaxWrites of them
WriteBlock(block_number, input) ==
    LET size == Len(input)
        underlying_block_size == get_underlying_block_size(cs.block_size, cs.iv_size)
        underlying_offset == BlockOffset(block_number, underlying_block_size)
        auxiliary == Auxiliary(block_number)
        Stored(bytes) ==
            /\ inner' = StreamWrite(inner, underlying_offset.lo, bytes)
            /\ written' = [written EXCEPT ![block_number.lo] =
                              [n |-> size, p |-> input, key |-> cs.key,
                               maxn |-> Max(@.maxn, size), master |-> cs.master,
                               reopened |-> FALSE]]
            /\ writes' = writes + 1
            /\ logical' = -1
            /\ ret' = Outcome("write_block", <<block_number, size>>, 0, <<>>, "")
    IN  /\ cs.alive
        /\ IF TooLong(block_number)
           THEN /\ ret' = Outcome("write_block", <<block_number, size>>, 0, <<>>,
                                  "StreamTooLong")
                /\ UNCHANGED <<inner, logical, written, writes>>
           ELSE /\ block_number.lo <= MaxBlock
                /\ writes < MaxWrites
                /\ IF is_all_zeros(input)
                   THEN Stored(Zeros(size + cs.iv_size + mac_size))
                   ELSE \E iv \in DrawIv(cs.iv_size) :
                           /\ Stored(iv \o EncryptAndAuthenticate(cs.key, iv,
                                                                  auxiliary, input))
        /\ UNCHANGED <<cs, tampered, fuse, file, pool>>

----------------------------------------------------------------------------
(* Operations on the sizes *)

\* AESGCMCryptStream::size
Size ==
    /\ cs.alive
    /\ ret' = Outcome("size", <<>>,
                      calculate_real_size(Len(inner), cs.block_size, cs.iv_size),
                      <<>>, "")
    /\ UNCHANGED <<inner, cs, logical, written, tampered, writes, fuse, file, pool>>

\* AESGCMCryptStream::adjust_logical_size
AdjustLogicalSize(length) ==
    /\ cs.alive
    /\ inner' = StreamResize(inner, adjusted_size(length, cs.block_size, cs.iv_size))
    /\ logical' = length
    /\ ret' = Outcome("adjust_logical_size", <<length>>, 0, <<>>, "")
    /\ UNCHANGED <<cs, written, tampered, writes, fuse, file, pool>>

----------------------------------------------------------------------------
(* The size arithmetic on its own: any inner size, every valid block size   *)
(* and IV size.                                                             *)

CalcBlockSizes == MinBlockSize .. (MinBlockSize + BlockSizeSpan)
CalcIvSizes == MinIvSize .. MaxIvSize

InitCalc ==
    /\ inner \in {Zeros(s) : s \in 0..MaxUnderlying}
    /\ cs \in {[alive |-> TRUE, block_size |-> b, iv_size |-> i, key |-> <<>>,
                check |-> TRUE, master |-> ""] :
                   b \in CalcBlockSizes, i \in CalcIvSizes}
    /\ ret = NoCall
    /\ logical = -1
    /\ written = [b \in 0..MaxBlock |-> NoWrite]
    /\ tampered = {}
    /\ writes = 0
    /\ fuse = NoMount
    /\ file = NoFile
    /\ pool = NoPool

NextCalc ==
    \/ Size
    \/ \E length \in 0..MaxLogical : AdjustLogicalSize(length)

SpecCalc == InitCalc /\ [][NextCalc]_vars

----------------------------------------------------------------------------
(* The crypt stream in use: it is constructed, and constructed again (the   *)
(* file is reopened), over one inner stream; blocks are written and read.   *)

MasterKeys == {"K1", "K2"}

\* the valid block parameters in use, and one invalid choice per check
BlockParams == {<<MinBlockSize, MinIvSize>>}
BadParams == {<<31, 12>>, <<32, 11>>, <<32, 33>>}

PayloadBytes == {0, 7}
ShortSizes == {10}
Plaintexts(block_size) ==
    {[k \in 1..n |-> Plain(b)] : b \in PayloadBytes,
                                 n \in ShortSizes \cup {block_size}}

Block(i) == W(0, i)

Init ==
    /\ inner = <<>>
    /\ cs = NoStream
    /\ ret = NoCall
    /\ logical = -1
    /\ written = [b \in 0..MaxBlock |-> NoWrite]
    /\ tampered = {}
    /\ writes = 0
    /\ fuse = NoMount
    /\ file = NoFile
    /\ pool = NoPool

\* the file is written under the master key K1; it is reopened, to read it,
\* under K1 or K2
Next ==
    \/ \E k \in MasterKeys, bp \in BlockParams :
          Construct(FALSE, k, bp[1], bp[2], TRUE)
    \/ \E i \in 0..MaxBlock, p \in Plaintexts(cs.block_size) :
          cs.master = "K1" /\ WriteBlock(Block(i), p)
    \/ \E i \in 0..(MaxBlock + 1) : ReadBlock(Block(i))

Spec == Init /\ [][Next]_vars

----------------------------------------------------------------------------
(* C1: for every underlying size S and every valid block size and IV size,  *)
(* size() returns 0 when S <= 32 and otherwise n*block_size +               *)
(* max(0, r - iv_size - 16), with U = S - 32, n = U div (block_size +       *)
(* iv_size + 16) and r = U mod (block_size + iv_size + 16).                 *)
C1_Expected(S, bs, iv) ==
    IF S <= 32 THEN 0
    ELSE LET U == S - 32
             n == U \div (bs + iv + 16)
             r == U % (bs + iv + 16)
         IN  n * bs + (IF r - iv - 16 > 0 THEN r - iv - 16 ELSE 0)

C1_SizeFormula ==
    ret.op = "size" => ret.val = C1_Expected(Len(inner), cs.block_size, cs.iv_size)

\* size() has run on a stream that ends inside a second block's ciphertext
C1_Witness ==
    /\ ret.op = "size"
    /\ Len(inner) = 32 + (cs.block_size + cs.iv_size + 16) + cs.iv_size + 16 + 3
    /\ ret.val = cs.block_size + 3

(* C2: after adjust_logical_size(L) the inner stream's size is exactly      *)
(* 32 + (L div block_size)*(block_size + iv_size + 16) +                    *)
(* (r > 0 ? r + iv_size + 16 : 0) with r = L mod block_size, and size()     *)
(* then reports exactly L.                                                  *)
C2_AdjustThenSize ==
    /\ ret.op = "adjust_logical_size" =>
          LET L == ret.args[1]
              r == L % cs.block_size
          IN  Len(inner) = 32 + (L \div cs.block_size)
                                   * (cs.block_size + cs.iv_size + 16)
                              + (IF r > 0 THEN r + cs.iv_size + 16 ELSE 0)
    /\ (ret.op = "size" /\ logical >= 0) => ret.val = logical

\* size() has run after adjust_logical_size(10) (scenario B)
C2_Witness ==
    /\ ret.op = "size"
    /\ logical = 10
    /\ Len(inner) = 32 + 10 + cs.iv_size + 16
    /\ ret.val = 10

----------------------------------------------------------------------------
(* Opening inner streams of any length, with any parameters *)

InitOpen ==
    /\ inner \in {[k \in 1..n |-> Plain(b)] : n \in 0..MaxInitial, b \in RandomBytes}
    /\ cs = NoStream
    /\ ret = NoCall
    /\ logical = -1
    /\ written = [b \in 0..MaxBlock |-> NoWrite]
    /\ tampered = {}
    /\ writes = 0
    /\ fuse = NoMount
    /\ file = NoFile
    /\ pool = NoPool

NextOpen ==
    \/ \E null_stream \in BOOLEAN, k \in MasterKeys,
          bp \in BlockParams \cup BadParams, check \in BOOLEAN :
          Construct(null_stream, k, bp[1], bp[2], check)
    \/ ReadBlock(Block(0))
    \/ Size

SpecOpen == InitOpen /\ [][NextOpen]_vars

----------------------------------------------------------------------------
(* Block numbers around the limit *)

LimitBlocks ==
    {Block(i) : i \in 0..MaxBlock}
      \cup {W(0, 2147483646), W(0, 2147483647), W(1, 0), W(1, 1),
            W(2147483647, 2147483647)}

NextLimit ==
    \/ \E bp \in BlockParams :
          ~cs.alive /\ Construct(FALSE, "K1", bp[1], bp[2], TRUE)
    \/ \E b \in LimitBlocks, p \in Plaintexts(cs.block_size) : WriteBlock(b, p)
    \/ \E b \in LimitBlocks : ReadBlock(b)

SpecLimit == Init /\ [][NextLimit]_vars

----------------------------------------------------------------------------
(* Tampering: the stored bytes are changed behind the crypt stream's back,  *)
(* once: one bit is flipped, or two complete blocks change places.          *)

FlipBitOf(v, bit) ==
    IF (v \div (2 ^ bit)) % 2 = 1 THEN v - 2 ^ bit ELSE v + 2 ^ bit

\* the block that holds the byte at offset off
BlockOf(off) == (off - 32) \div get_underlying_block_size(cs.block_size, cs.iv_size)

FlipBit(off, bit) ==
    /\ cs.alive
    /\ tampered = {}
    /\ off >= 32 /\ off < Len(inner)
    /\ inner' = [inner EXCEPT ![off + 1] = [@ EXCEPT !.v = FlipBitOf(@, bit)]]
    /\ tampered' = {<<"flip", BlockOf(off)>>}
    /\ ret' = Outcome("flip", <<off, bit>>, 0, <<>>, "")
    /\ UNCHANGED <<cs, logical, written, writes, fuse, file, pool>>

SwapBlocks(i, j) ==
    LET ubs == get_underlying_block_size(cs.block_size, cs.iv_size)
        Region(b) == SubSeq(inner, 32 + b * ubs + 1, 32 + (b + 1) * ubs)
    IN  /\ cs.alive
        /\ tampered = {}
        /\ i < j /\ Len(inner) >= 32 + (j + 1) * ubs
        /\ inner' = StreamWrite(StreamWrite(inner, 32 + i * ubs, Region(j)),
                                32 + j * ubs, Region(i))
        /\ tampered' = {<<"swap", i>>, <<"swap", j>>}
        /\ ret' = Outcome("swap", <<i, j>>, 0, <<>>, "")
        /\ UNCHANGED <<cs, logical, written, writes, fuse, file, pool>>

\* the first and the last byte of the IV, of the ciphertext and of the tag of
\* each stored block
FlipOffsets ==
    LET ubs == get_underlying_block_size(cs.block_size, cs.iv_size)
    IN  UNION {LET off == 32 + i * ubs
                   len == Min(ubs, Len(inner) - off)
               IN  IF len <= cs.iv_size + 16 THEN {}
                   ELSE {off, off + cs.iv_size - 1, off + cs.iv_size,
                         off + len - 17, off + len - 16, off + len - 1}
               : i \in 0..MaxBlock}
FlipBits == {0, 7}

TamperPlaintexts(block_size) ==
    {[k \in 1..block_size |-> Plain(0)], [k \in 1..block_size |-> Plain(7)]}
       \cup {[k \in 1..n |-> Plain(7)] : n \in ShortSizes}

NextTamper ==
    \/ \E bp \in BlockParams, check \in BOOLEAN :
          ~cs.alive /\ Construct(FALSE, "K1", bp[1], bp[2], check)
    \/ \E i \in 0..MaxBlock, p \in TamperPlaintexts(cs.block_size) :
          /\ tampered = {}
          /\ written[i].n = 0
          /\ WriteBlock(Block(i), p)
    \/ \E off \in FlipOffsets, bit \in FlipBits : FlipBit(off, bit)
    \/ \E i, j \in 0..MaxBlock : SwapBlocks(i, j)
    \/ \E i \in 0..MaxBlock : ReadBlock(Block(i))

SpecTamper == Init /\ [][NextTamper]_vars

----------------------------------------------------------------------------
(* The operation table: the callbacks the host calls, on one worker thread.  *)
(* ret.val is the int a callback returns; ret.err names the exception that  *)
(* leaves the callback, "" when it returns.                                 *)

StreamVars == <<inner, cs, logical, written, tampered, writes, file, pool>>

\* what a facade or file operation does: it returns, or it throws an
\* ExceptionBase with an errno, or another std::exception
HostResults ==
    {[ok |-> TRUE, base |-> TRUE, code |-> 0]}
      \cup {[ok |-> FALSE, base |-> TRUE, code |-> e] : e \in {2, 5}}
      \cup {[ok |-> FALSE, base |-> FALSE, code |-> 0]}

\* the catch clause: -error_number() of an ExceptionBase, -EPERM otherwise
Catch(e) == -(IF e.base THEN e.code ELSE 1)

Returns(op, args, val) == ret' = Outcome(op, args, val, <<>>, "")
Escapes(op, args, exception) == ret' = Outcome(op, args, 0, <<>>, exception)

\* get_local_filesystem: the exception it throws ("" if none) and whether the
\* thread has a facade afterwards
get_local_filesystem ==
    IF fuse.opt_fs THEN [throws |-> "", opt_fs |-> TRUE]
    ELSE IF fuse.version # 4 THEN [throws |-> "InvalidArgument", opt_fs |-> FALSE]
    ELSE IF fuse.key_size # 3 * 32
    THEN [throws |-> "InvalidArgument", opt_fs |-> FALSE]
    ELSE [throws |-> "", opt_fs |-> TRUE]

\* SINGLE_COMMON_PROLOGUE try { ... } SINGLE_COMMON_EPILOGUE, and the same
\* shape with two paths: the facade is obtained before the try block. On
\* success the callback returns one of vals and leaves the handles fh, dh.
WithFacade(op, args, vals, fh, dh) ==
    LET fs == get_local_filesystem
    IN  /\ UNCHANGED StreamVars
        /\ IF fs.throws # ""
           THEN Escapes(op, args, fs.throws) /\ UNCHANGED fuse
           ELSE \E r \in HostResults :
                   IF r.ok
                   THEN /\ \E val \in vals : Returns(op, args, val)
                        /\ fuse' = [fuse EXCEPT !.opt_fs = fs.opt_fs,
                                                !.fh = fh, !.dh = dh]
                   ELSE /\ Returns(op, args, Catch(r))
                        /\ fuse' = [fuse EXCEPT !.opt_fs = fs.opt_fs]

\* a body that returns 0 and changes no handle
Plain0(op, args) == WithFacade(op, args, {0}, fuse.fh, fuse.dh)

\* statfs: the facade is obtained first; a null buf returns -EFAULT before
\* filesystem->statvfs(buf), the call that queries the host; out: the calls made
statfs(buf) ==
    LET fs == get_local_filesystem
    IN  /\ UNCHANGED StreamVars
        /\ IF fs.throws # ""
           THEN Escapes("statfs", <<buf>>, fs.throws) /\ UNCHANGED fuse
           ELSE /\ fuse' = [fuse EXCEPT !.opt_fs = fs.opt_fs]
                /\ IF buf = 0
                   THEN Returns("statfs", <<buf>>, -14)
                   ELSE \E r \in HostResults :
                           ret' = Outcome("statfs", <<buf>>,
                                          IF r.ok THEN 0 ELSE Catch(r),
                                          <<"statvfs">>, "")

getattr == WithFacade("getattr", <<>>, {0, -2}, fuse.fh, fuse.dh)

opendir == WithFacade("opendir", <<>>, {0}, fuse.fh, 1)

releasedir ==
    /\ Returns("releasedir", <<>>, 0)
    /\ fuse' = [fuse EXCEPT !.dh = 0]
    /\ UNCHANGED StreamVars

\* the listings the traverser yields, in its order
Listings ==
    {<<>>, <<".", "..">>, <<".", "..", "a", "b">>, <<"b", ".", "a">>,
     <<"a", "..", "b", "a">>}

\* the while loop of readdir from the i-th next() on: filled are the names
\* passed to the filler so far; the filler returns rc at its stop_at-th call
\* and 0 at the others; the throw_at-th next() throws e (none if throw_at = 0)
RECURSIVE ReadDirLoop_win32(_, _, _, _, _, _, _)
ReadDirLoop_win32(entries, i, filled, stop_at, rc, throw_at, e) ==
    IF i = throw_at THEN [val |-> Catch(e), filled |-> filled]
    ELSE IF i > Len(entries) THEN [val |-> 0, filled |-> filled]
    ELSE IF Len(filled) + 1 = stop_at
         THEN [val |-> IF rc < 0 THEN rc ELSE -rc,
               filled |-> Append(filled, entries[i])]
         ELSE ReadDirLoop_win32(entries, i + 1, Append(filled, entries[i]),
                                stop_at, rc, throw_at, e)

RECURSIVE ReadDirLoop(_, _, _, _, _, _, _)
ReadDirLoop(entries, i, filled, stop_at, rc, throw_at, e) ==
    IF i = throw_at THEN [val |-> Catch(e), filled |-> filled]
    ELSE IF i > Len(entries) THEN [val |-> 0, filled |-> filled]
    ELSE IF entries[i] = "." \/ entries[i] = ".."
    THEN ReadDirLoop(entries, i + 1, filled, stop_at, rc, throw_at, e)
    ELSE IF Len(filled) + 1 = stop_at
         THEN [val |-> IF rc < 0 THEN rc ELSE -rc,
               filled |-> Append(filled, entries[i])]
         ELSE ReadDirLoop(entries, i + 1, Append(filled, entries[i]),
                          stop_at, rc, throw_at, e)

\* readdir (POSIX build); args: the listing, stop_at, rc and throw_at; out: the
\* names passed to the filler
readdir(entries, stop_at, rc, throw_at) ==
    /\ UNCHANGED <<StreamVars, fuse, file, pool>>
    /\ IF fuse.dh = 0
       THEN ret' = Outcome("readdir", <<entries, stop_at, rc, throw_at>>, -14, <<>>, "")
       ELSE \E e \in {r \in HostResults : ~r.ok} :
               LET loop == ReadDirLoop(entries, 1, <<>>, stop_at, rc, throw_at, e)
               IN  ret' = Outcome("readdir", <<entries, stop_at, rc, throw_at>>,
                                  loop.val, loop.filled, "")

\* AutoClosedFile file = filesystem->open(...); info->fh = file.release():
\* a File is allocated and handed to info->fh only if open returns
OpenFile(op) ==
    LET fs == get_local_filesystem
    IN  /\ UNCHANGED StreamVars
        /\ IF fs.throws # ""
           THEN Escapes(op, <<>>, fs.throws) /\ UNCHANGED fuse
           ELSE \E r \in HostResults :
                   IF r.ok
                   THEN /\ Returns(op, <<>>, 0)
                        /\ fuse' = [fuse EXCEPT !.opt_fs = fs.opt_fs, !.fh = 1,
                                                !.files = @ + 1]
                   ELSE /\ Returns(op, <<>>, Catch(r))
                        /\ fuse' = [fuse EXCEPT !.opt_fs = fs.opt_fs]

create == OpenFile("create")

open == OpenFile("open")

release_handle_only ==
    /\ Returns("release", <<>>, 0)
    /\ fuse' = [fuse EXCEPT !.fh = 0]
    /\ UNCHANGED StreamVars

\* delete reinterpret_cast<File*>(info->fh); the host gives the handle up
release ==
    /\ Returns("release", <<>>, 0)
    /\ fuse' = [fuse EXCEPT !.fh = 0, !.files = IF fuse.fh # 0 THEN @ - 1 ELSE @]
    /\ UNCHANGED StreamVars

\* if (!fp) return -EFAULT; try { lock; Body; unlock } catch; out: the calls
\* made on the File
WithFile(op, args, val) ==
    /\ UNCHANGED <<StreamVars, fuse, file, pool>>
    /\ IF fuse.fh = 0 THEN Returns(op, args, -14)
       ELSE \E r \in HostResults :
               ret' = Outcome(op, args, IF r.ok THEN val ELSE Catch(r),
                              IF r.ok THEN <<"lock", op, "unlock">>
                              ELSE <<"lock", op, "throws", "unlock">>, "")

RequestSizes == {0, 10}
\* the sizes of the reads and writes, up to the max_write = 2^32 - 1 that init
\* advertises
TransferSizes == {W(0, 0), W(0, 10), W(0, 2147483647), W(1, 0), W(1, 2147483647)}

\* static_cast<int>(n) of a size_t n < 2^32, held as hi * 2^31 + lo: the low
\* 32 bits read as a two's complement number
static_cast_int(n) == IF n.hi % 2 = 1 THEN n.lo - 2147483647 - 1 ELSE n.lo

\* read returns static_cast<int>(fp->read(buf, offset, size)), the n <= size
\* bytes read; write returns static_cast<int>(size)
read(size, n) ==
    /\ ~WGreater(n, size)
    /\ WithFile("read", <<size, n>>, static_cast_int(n))
write(size) == WithFile("write", <<size>>, static_cast_int(size))
flush == WithFile("flush", <<>>, 0)
ftruncate(len) == WithFile("ftruncate", <<len>>, 0)
fsync == WithFile("fsync", <<>>, 0)

unlink == Plain0("unlink", <<>>)
mkdir == Plain0("mkdir", <<>>)
rmdir == Plain0("rmdir", <<>>)
chmod == Plain0("chmod", <<>>)
chown == Plain0("chown", <<>>)
symlink == Plain0("symlink", <<>>)
link == Plain0("link", <<>>)
readlink == Plain0("readlink", <<>>)
rename == Plain0("rename", <<>>)
utimens == Plain0("utimens", <<>>)

truncate(len) ==
    IF len < 0
    THEN Returns("truncate", <<len>>, -22) /\ UNCHANGED <<StreamVars, fuse, file, pool>>
    ELSE Plain0("truncate", <<len>>)

\* the xattr callbacks have no try block: they return what the facade returns
XattrResults == {0, 10, -2, -5}

WithoutTry(op, args) ==
    LET fs == get_local_filesystem
    IN  /\ UNCHANGED StreamVars
        /\ IF fs.throws # ""
           THEN Escapes(op, args, fs.throws) /\ UNCHANGED fuse
           ELSE /\ \E r \in XattrResults :
                      (r <= 0 \/ op \in {"listxattr", "getxattr"})
                        /\ Returns(op, args, r)
                /\ fuse' = [fuse EXCEPT !.opt_fs = fs.opt_fs]

listxattr == WithoutTry("listxattr", <<>>)

XattrNames == {"user.a", "com.apple.quarantine", "com.apple.FinderInfo"}

getxattr(name, position) ==
    IF position # 0
    THEN Returns("getxattr", <<name, position>>, -22)
           /\ UNCHANGED <<StreamVars, fuse, file, pool>>
    ELSE IF name \in {"com.apple.quarantine", "com.apple.FinderInfo"}
    THEN Returns("getxattr", <<name, position>>, -93)
           /\ UNCHANGED <<StreamVars, fuse, file, pool>>
    ELSE WithoutTry("getxattr", <<name, position>>)

setxattr(name, size, position) ==
    IF position # 0
    THEN Returns("setxattr", <<name, size, position>>, -22)
           /\ UNCHANGED <<StreamVars, fuse, file, pool>>
    ELSE IF name = "com.apple.quarantine"
    THEN Returns("setxattr", <<name, size, position>>, 0)
           /\ UNCHANGED <<StreamVars, fuse, file, pool>>
    ELSE IF name = "com.apple.FinderInfo"
    THEN Returns("setxattr", <<name, size, position>>, -13)
           /\ UNCHANGED <<StreamVars, fuse, file, pool>>
    ELSE IF size = 0
    THEN Returns("setxattr", <<name, size, position>>, 0)
           /\ UNCHANGED <<StreamVars, fuse, file, pool>>
    ELSE WithoutTry("setxattr", <<name, size, position>>)

removexattr == WithoutTry("removexattr", <<>>)

\* the mount options the configuration loader supplies
MountOptions ==
    {[version |-> v, key_size |-> k, opt_fs |-> FALSE, fh |-> 0, dh |-> 0,
      files |-> 0] :
        v \in {3, 4}, k \in {32, 96}}

InitOps ==
    /\ inner = <<>>
    /\ cs = NoStream
    /\ ret = NoCall
    /\ logical = -1
    /\ written = [b \in 0..MaxBlock |-> NoWrite]
    /\ tampered = {}
    /\ writes = 0
    /\ fuse \in MountOptions
    /\ file = NoFile
    /\ pool = NoPool

NextOps ==
    \/ \E buf \in {0, 1} : statfs(buf)
    \/ getattr
    \/ opendir
    \/ releasedir
    \/ \E entries \in Listings, stop_at \in 0..2, rc \in {1, -1, 2},
          throw_at \in {0, 1, 3} : readdir(entries, stop_at, rc, throw_at)
    \/ fuse.fh = 0 /\ create
    \/ fuse.fh = 0 /\ open
    \/ release
    \/ \E size, n \in TransferSizes : read(size, n)
    \/ \E size \in TransferSizes : write(size)
    \/ flush
    \/ \E len \in RequestSizes : ftruncate(len)
    \/ unlink
    \/ mkdir
    \/ rmdir
    \/ chmod
    \/ chown
    \/ symlink
    \/ link
    \/ readlink
    \/ rename
    \/ fsync
    \/ \E len \in RequestSizes \cup {-1} : truncate(len)
    \/ utimens
    \/ listxattr
    \/ \E name \in XattrNames, position \in {0, 1} : getxattr(name, position)
    \/ \E name \in XattrNames, size \in RequestSizes, position \in {0, 1} :
          setxattr(name, size, position)
    \/ removexattr

SpecOps == InitOps /\ [][NextOps]_vars

----------------------------------------------------------------------------
(* The data-bearing callbacks, step by step, on a pool of worker threads.    *)
(* A thread enters a callback, locks the File, runs the stream operation    *)
(* (which reads and writes the crypt stream's scratch buffer and cipher     *)
(* objects), and unlocks on leaving the try block (DEFER).                  *)

DataOps == {"read", "write", "flush", "ftruncate", "fsync", "truncate"}

OtherVars == <<inner, cs, logical, written, tampered, writes, fuse, pool>>

LockExclusive_never(op) == FALSE

\* fp->lock(false) in read, fp->lock() (exclusive) in the others
LockExclusive(op) == op # "read"

\* File::lock(exclusive): a shared lock is granted while no thread holds the
\* File exclusively, an exclusive lock while no thread holds it at all
CanLock(f, exclusive) ==
    IF exclusive THEN file.readers[f] = {} /\ file.writers[f] = {}
    ELSE file.writers[f] = {}

\* the callback is called with the File of the shared handle; truncate opens
\* a File of its own (AutoClosedFile fp), open: the temporary Files open
CallbackEnter(t, op) ==
    /\ file.pc[t] = "idle"
    /\ file' = [file EXCEPT !.pc[t] = "entered", !.op[t] = op,
                            !.target[t] = IF op = "truncate" THEN t ELSE 0,
                            !.open = IF op = "truncate" THEN @ \cup {t} ELSE @]
    /\ UNCHANGED <<ret, OtherVars>>

\* fp->lock(...); DEFER(fp->unlock());
FileLock(t) ==
    LET f == file.target[t]
        exclusive == LockExclusive(file.op[t])
    IN  /\ file.pc[t] = "entered"
        /\ CanLock(f, exclusive)
        /\ file' = [file EXCEPT
                      !.pc[t] = "locked",
                      !.readers[f] = IF exclusive THEN @ ELSE @ \cup {t},
                      !.writers[f] = IF exclusive THEN @ \cup {t} ELSE @]
        /\ UNCHANGED <<ret, OtherVars>>

\* fp->lock(...) throws: nothing is locked, the catch clause returns -code
FileLockThrows(t) ==
    /\ file.pc[t] = "entered"
    /\ IF file.op[t] = "truncate"
       THEN /\ file' = [file EXCEPT !.pc[t] = "closing", !.result[t] = -5]
            /\ UNCHANGED ret
       ELSE /\ file' = [file EXCEPT !.pc[t] = "idle", !.op[t] = "none",
                                    !.target[t] = 0]
            /\ ret' = Outcome(file.op[t], <<t>>, -5, <<>>, "")
    /\ UNCHANGED OtherVars

\* fp->read / write / flush / resize / fsync starts
StreamOpBegin(t) ==
    /\ file.pc[t] = "locked"
    /\ file' = [file EXCEPT !.pc[t] = "stream",
                            !.users[file.target[t]] = @ \cup {t}]
    /\ UNCHANGED <<ret, OtherVars>>

\* ... and returns or throws
StreamOpEnd(t, ok) ==
    /\ file.pc[t] = "stream"
    /\ file' = [file EXCEPT !.pc[t] = "finished",
                            !.users[file.target[t]] = @ \ {t},
                            !.result[t] = IF ok THEN 0 ELSE -5]
    /\ UNCHANGED <<ret, OtherVars>>

FileUnlock_skipped_on_error(t) ==
    LET f == file.target[t]
        held == file.result[t] # 0
    IN  /\ file.pc[t] = "finished"
        /\ IF file.op[t] = "truncate"
           THEN /\ file' = [file EXCEPT !.pc[t] = "closing",
                                        !.readers[f] = IF held THEN @ ELSE @ \ {t},
                                        !.writers[f] = IF held THEN @ ELSE @ \ {t}]
                /\ UNCHANGED ret
           ELSE /\ file' = [file EXCEPT !.pc[t] = "idle", !.op[t] = "none",
                                        !.target[t] = 0, !.result[t] = 0,
                                        !.readers[f] = IF held THEN @ ELSE @ \ {t},
                                        !.writers[f] = IF held THEN @ ELSE @ \ {t}]
                /\ ret' = Outcome(file.op[t], <<t>>, file.result[t], <<>>, "")
        /\ UNCHANGED OtherVars

\* leaving the try block, by return or by exception: the deferred
\* fp->unlock() runs; the callback returns, or truncate goes on to close
FileUnlock(t) ==
    LET f == file.target[t]
    IN  /\ file.pc[t] = "finished"
        /\ IF file.op[t] = "truncate"
           THEN /\ file' = [file EXCEPT !.pc[t] = "closing",
                                        !.readers[f] = @ \ {t},
                                        !.writers[f] = @ \ {t}]
                /\ UNCHANGED ret
           ELSE /\ file' = [file EXCEPT !.pc[t] = "idle", !.op[t] = "none",
                                        !.target[t] = 0, !.result[t] = 0,
                                        !.readers[f] = @ \ {t},
                                        !.writers[f] = @ \ {t}]
                /\ ret' = Outcome(file.op[t], <<t>>, file.result[t], <<>>, "")
        /\ UNCHANGED OtherVars

\* truncate: the AutoClosedFile is destroyed, which closes the temporary File,
\* and the callback returns
FileClose(t) ==
    /\ file.pc[t] = "closing"
    /\ file' = [file EXCEPT !.pc[t] = "idle", !.op[t] = "none",
                            !.target[t] = 0, !.result[t] = 0,
                            !.open = @ \ {t}]
    /\ ret' = Outcome(file.op[t], <<t>>, file.result[t], <<>>, "")
    /\ UNCHANGED OtherVars

NextLock ==
    \/ \E t \in Threads, op \in DataOps : CallbackEnter(t, op)
    \/ \E t \in Threads : FileLock(t)
    \/ \E t \in Threads : FileLockThrows(t)
    \/ \E t \in Threads : StreamOpBegin(t)
    \/ \E t \in Threads, ok \in BOOLEAN : StreamOpEnd(t, ok)
    \/ \E t \in Threads : FileUnlock(t)
    \/ \E t \in Threads : FileClose(t)

SpecLock == Init /\ [][NextLock]_vars

----------------------------------------------------------------------------
(* The per-thread facades.  The build either has thread_local (opt_fs) or   *)
(* keeps the facade under a pthread key created by init (ctx->key); pool    *)
(* holds both stores, and has_thread_local tells which the build uses.      *)
(* History: facades (every FileSystem constructed, with its mount and       *)
(* thread), given (which instance was returned to which thread).            *)

PoolOtherVars == <<inner, cs, logical, written, tampered, writes, fuse, file>>

NoResult == [thread |-> 0, throws |-> "", facade |-> 0]

\* init: a new BundledContext over the mount options (and a new pthread key)
init(version, key_size) ==
    /\ ~pool.mount.ctx
    /\ pool.mount.epoch < MaxMounts
    /\ pool' = [pool EXCEPT !.mount = [epoch |-> pool.mount.epoch + 1,
                                       version |-> version,
                                       key_size |-> key_size, ctx |-> TRUE],
                            !.last = NoResult]
    /\ ret' = Outcome("init", <<version, key_size>>, 0, <<>>, "")
    /\ UNCHANGED PoolOtherVars

\* destroy: delete the BundledContext, and nothing else
destroy ==
    /\ pool.mount.ctx
    /\ pool' = [pool EXCEPT !.mount.ctx = FALSE, !.last = NoResult]
    /\ ret' = Outcome("destroy", <<>>, 0, <<>>, "")
    /\ UNCHANGED PoolOtherVars

StoredFacade_none(t) == 0

\* the facade the thread finds stored: opt_fs, or pthread_getspecific(ctx->key)
StoredFacade(t) ==
    IF pool.has_thread_local THEN pool.opt_fs[t]
    ELSE pool.specific[t][pool.mount.epoch]

\* get_local_filesystem called by thread t inside a callback of the mount;
\* setspecific_ok: pthread_setspecific returns 0
GetLocalFilesystem(t, setspecific_ok) ==
    LET have == StoredFacade(t)
        id == pool.built + 1
        new == [id |-> id, epoch |-> pool.mount.epoch, thread |-> t]
        Throws(e) == [thread |-> t, throws |-> e, facade |-> 0]
        Gives(f) == [thread |-> t, throws |-> "", facade |-> f]
    IN  /\ pool.mount.ctx
        /\ t \notin pool.exited
        /\ UNCHANGED PoolOtherVars
        /\ IF have # 0
           THEN /\ pool' = [pool EXCEPT !.last = Gives(have),
                                        !.given = @ \cup {<<have, t>>}]
                /\ ret' = Outcome("get_local_filesystem", <<t>>, have, <<>>, "")
           ELSE IF pool.mount.version # 4 \/ pool.mount.key_size # 3 * 32
           THEN /\ pool' = [pool EXCEPT !.last = Throws("InvalidArgument")]
                /\ ret' = Outcome("get_local_filesystem", <<t>>, 0, <<>>,
                                  "InvalidArgument")
           ELSE /\ pool.built < MaxFacades
                /\ IF pool.has_thread_local
                   THEN /\ pool' = [pool EXCEPT !.built = id,
                                                !.facades = @ \cup {new},
                                                !.alive = @ \cup {id},
                                                !.opt_fs[t] = id,
                                                !.last = Gives(id),
                                                !.given = @ \cup {<<id, t>>}]
                        /\ ret' = Outcome("get_local_filesystem", <<t>>, id,
                                          <<>>, "")
                   ELSE IF setspecific_ok
                   THEN /\ pool' = [pool EXCEPT
                                      !.built = id,
                                      !.facades = @ \cup {new},
                                      !.alive = @ \cup {id},
                                      !.specific[t][pool.mount.epoch] = id,
                                      !.last = Gives(id),
                                      !.given = @ \cup {<<id, t>>}]
                        /\ ret' = Outcome("get_local_filesystem", <<t>>, id,
                                          <<>>, "")
                   ELSE \* the guard destroys the FileSystem just built
                        /\ pool' = [pool EXCEPT !.built = id,
                                                !.facades = @ \cup {new},
                                                !.last = Throws("PosixError")]
                        /\ ret' = Outcome("get_local_filesystem", <<t>>, 0,
                                          <<>>, "PosixError")

\* the thread exits: its thread_local opt_fs is destroyed, or the destructor
\* of each pthread key deletes the thread's facade under that key
ThreadExit(t) ==
    /\ t \notin pool.exited
    /\ pool' = [pool EXCEPT
                  !.exited = @ \cup {t},
                  !.alive = @ \ (IF pool.has_thread_local THEN {pool.opt_fs[t]}
                                 ELSE {pool.specific[t][k] : k \in 1..MaxMounts}),
                  !.opt_fs[t] = 0,
                  !.specific[t] = [k \in 1..MaxMounts |-> 0],
                  !.last = NoResult]
    /\ ret' = Outcome("thread_exit", <<t>>, 0, <<>>, "")
    /\ UNCHANGED PoolOtherVars

InitPool ==
    /\ inner = <<>>
    /\ cs = NoStream
    /\ ret = NoCall
    /\ logical = -1
    /\ written = [b \in 0..MaxBlock |-> NoWrite]
    /\ tampered = {}
    /\ writes = 0
    /\ fuse = NoMount
    /\ file = NoFile
    /\ pool \in {[NoPool EXCEPT !.has_thread_local = b] : b \in BOOLEAN}

NextPool ==
    \/ \E version \in {3, 4}, key_size \in {32, 96} : init(version, key_size)
    \/ destroy
    \/ \E t \in Threads, setspecific_ok \in BOOLEAN :
          GetLocalFilesystem(t, setspecific_ok)
    \/ \E t \in Threads : ThreadExit(t)

SpecPool == InitPool /\ [][NextPool]_vars

----------------------------------------------------------------------------
(* Vocabulary of the claims about stored blocks *)

Header == SubSeq(inner, 1, 32)
WrittenBlocks == {j \in 0..MaxBlock : written[j].n > 0}
\* the block index of the read_block call that ret reports
ReadIndex == ret.args[1].lo
IsRead == ret.op = "read_block" /\ ret.args[1].hi = 0
\* every block other than the highest-indexed one was written with block_size bytes
FullBelowHighest ==
    \A j \in WrittenBlocks :
        (\E h \in WrittenBlocks : h > j) => written[j].n = cs.block_size
\* read_block returned the latest write of block i
ReadBack(i) ==
    /\ ret.err = ""
    /\ ret.val = written[i].n
    /\ SubSeq(ret.out, 1, written[i].n) = written[i].p
PastEnd(i) == 32 + i * (cs.block_size + cs.iv_size + 16) >= Len(inner)
PastEndReadsZero ==
    (IsRead /\ PastEnd(ReadIndex)) => (ret.err = "" /\ ret.val = 0)

(* C3 as claimed: after any sequence of write_block calls in which every     *)
(* block other than the highest-indexed one was written with exactly        *)
(* block_size bytes, read_block(i) for each written block i returns the     *)
(* length and the plaintext of the latest write_block(i, p, n); read_block  *)
(* past the end returns 0.                                                  *)
C3_Original ==
    /\ (IsRead /\ ReadIndex \in WrittenBlocks /\ tampered = {}
          /\ cs.key = written[ReadIndex].key /\ FullBelowHighest)
       => ReadBack(ReadIndex)
    /\ PastEndReadsZero

(* C3 as amended: the same, for each written block i whose latest            *)
(* write_block is not shorter than an earlier write_block to block i        *)
(* (write_block does not truncate: a shorter rewrite leaves the tail of     *)
(* the longer block in the inner stream).                                   *)
C3_ReadBackUnlessShortened ==
    /\ (IsRead /\ ReadIndex \in WrittenBlocks /\ tampered = {}
          /\ cs.key = written[ReadIndex].key /\ FullBelowHighest
          /\ written[ReadIndex].n = written[ReadIndex].maxn)
       => ReadBack(ReadIndex)
    /\ PastEndReadsZero

\* read_block(1) has returned the short last block, block 0 being full, both
\* encrypted
C3_Witness ==
    /\ IsRead /\ ReadIndex = 1 /\ tampered = {}
    /\ written[0].n = cs.block_size /\ ~is_all_zeros(written[0].p)
    /\ written[1].n = 10 /\ ~is_all_zeros(written[1].p)
    /\ cs.key = written[1].key
    /\ ret.err = "" /\ ret.val = 10

(* C4 as claimed: a second crypt stream constructed over the same inner      *)
(* stream with the same master key reads the header unchanged, derives the  *)
(* same session key, and read_block returns every previously written block  *)
(* without a verification failure; with a different master key the          *)
(* non-sparse blocks fail with MessageVerification.                         *)
KeyFromStoredHeader == cs.alive => cs.key = ECB(cs.master, Header)
SameSessionKey ==
    \A i \in WrittenBlocks :
        (cs.alive /\ cs.master = written[i].master) => cs.key = written[i].key
ReadAfterReopen(i) ==
    IsRead /\ ReadIndex = i /\ i \in WrittenBlocks /\ written[i].reopened
           /\ tampered = {}
OtherKeyFails ==
    \A i \in 0..MaxBlock :
        (ReadAfterReopen(i) /\ cs.master # written[i].master
            /\ ~is_all_zeros(written[i].p))
        => ret.err = "MessageVerification"

C4_Original ==
    /\ KeyFromStoredHeader
    /\ SameSessionKey
    /\ \A i \in 0..MaxBlock :
          (ReadAfterReopen(i) /\ cs.master = written[i].master
              /\ FullBelowHighest)
          => ReadBack(i)
    /\ OtherKeyFails

(* C4 as amended: the same, for the blocks that read_block returns before    *)
(* the reopening: those of C3 as amended.                                   *)
C4_ReopenPreserves ==
    /\ KeyFromStoredHeader
    /\ SameSessionKey
    /\ \A i \in 0..MaxBlock :
          (ReadAfterReopen(i) /\ cs.master = written[i].master
              /\ FullBelowHighest /\ written[i].n = written[i].maxn)
          => ReadBack(i)
    /\ OtherKeyFails

\* an encrypted block has been read back after a reopening with the same key
C4_Witness ==
    /\ ReadAfterReopen(0) /\ cs.master = written[0].master
    /\ ~is_all_zeros(written[0].p) /\ written[0].n = cs.block_size
    /\ ret.err = "" /\ ret.val = cs.block_size

(* C7: write_block of an all-zero plaintext of n bytes writes exactly        *)
(* n + iv_size + 16 zero bytes at offset 32 + i*(block_size + iv_size + 16) *)
(* and nothing else; read_block of a block whose r > iv_size + 16 stored    *)
(* bytes are all zero outputs block_size zero bytes and returns             *)
(* r - iv_size - 16, whatever the key: no verification takes place.         *)
C7_ZeroWriteStep ==
    (ret'.op = "write_block" /\ ret'.err = ""
        /\ is_all_zeros(written'[ret'.args[1].lo].p))
    => LET off == 32 + ret'.args[1].lo * (cs.block_size + cs.iv_size + 16)
           len == ret'.args[2] + cs.iv_size + 16
       IN  /\ Len(inner') = Max(Len(inner), off + len)
           /\ \A k \in 1..Len(inner') :
                 inner'[k] = IF k > off /\ k <= off + len THEN Zero
                             ELSE IF k <= Len(inner) THEN inner[k]
                             ELSE Zero

StoredLength(i) ==
    LET off == 32 + i * (cs.block_size + cs.iv_size + 16)
    IN  Max(0, Min(cs.block_size + cs.iv_size + 16, Len(inner) - off))
StoredZero(i) ==
    LET off == 32 + i * (cs.block_size + cs.iv_size + 16)
    IN  \A k \in (off + 1)..(off + StoredLength(i)) : inner[k] = Zero

C7_ZeroRead ==
    (IsRead /\ StoredLength(ReadIndex) > cs.iv_size + 16 /\ StoredZero(ReadIndex))
    => /\ ret.err = ""
       /\ ret.val = StoredLength(ReadIndex) - cs.iv_size - 16
       /\ ret.out = [k \in 1..cs.block_size |-> Zero]

C7_SparseBlocks == [][C7_ZeroWriteStep]_vars /\ []C7_ZeroRead

\* a short all-zero block has been read by a stream with another session key
C7_Witness ==
    /\ IsRead /\ ReadIndex = 1 /\ written[1].n = 10 /\ is_all_zeros(written[1].p)
    /\ cs.key # written[1].key
    /\ StoredZero(1) /\ StoredLength(1) = 10 + cs.iv_size + 16
    /\ ret.err = "" /\ ret.val = 10

(* C5: with check = TRUE, after one bit is flipped anywhere in the           *)
(* iv | ciphertext | tag region of a stored block, the next read_block of   *)
(* that block fails with MessageVerification, while read_block of every     *)
(* other written block still returns its plaintext.                         *)
Flipped(i) == <<"flip", i>> \in tampered

C5_FlipDetected ==
    /\ (IsRead /\ cs.check /\ Flipped(ReadIndex))
       => ret.err = "MessageVerification"
    /\ (IsRead /\ (\E j \in 0..MaxBlock : j # ReadIndex /\ Flipped(j))
          /\ ReadIndex \in WrittenBlocks /\ cs.key = written[ReadIndex].key
          /\ FullBelowHighest)
       => ReadBack(ReadIndex)

\* read_block of an encrypted block has failed after a flip in its region
C5_Witness ==
    /\ IsRead /\ ReadIndex = 0 /\ Flipped(0) /\ cs.check
    /\ written[0].n = cs.block_size /\ ~is_all_zeros(written[0].p)
    /\ ret.op = "read_block" /\ ret.err = "MessageVerification"

(* C6 as claimed: with check = TRUE, after the complete stored regions of    *)
(* two blocks i # j of one file have changed places, read_block(i) and      *)
(* read_block(j) both fail verification.                                    *)
Swapped(i) == <<"swap", i>> \in tampered

C6_Original ==
    (IsRead /\ cs.check /\ Swapped(ReadIndex))
    => ret.err = "MessageVerification"

(* C6 as amended: read_block fails verification at each of the two           *)
(* positions whose region is not all-zero after the swap; a position that   *)
(* has received an all-zero region (a sparse block) is read as zeros,       *)
(* without verification.                                                    *)
C6_SwapDetectedUnlessSparse ==
    (IsRead /\ cs.check /\ Swapped(ReadIndex))
    => IF StoredZero(ReadIndex)
       THEN ret.err = "" /\ is_all_zeros(ret.out)
       ELSE ret.err = "MessageVerification"

\* two encrypted blocks with the same key, IV and plaintext have changed
\* places, and read_block of one of them has failed
C6_Witness ==
    /\ IsRead /\ cs.check /\ Swapped(ReadIndex) /\ ReadIndex = 1
    /\ written[0].n = cs.block_size /\ ~is_all_zeros(written[0].p)
    /\ written[1].p = written[0].p /\ written[1].key = written[0].key
    /\ ret.err = "MessageVerification"

(* C9: constructing the crypt stream (with valid arguments) over an inner    *)
(* stream of length 0 writes a freshly generated 32-byte header at offset   *)
(* 0; over an inner stream of length 1..31 it fails with InvalidArgument    *)
(* and leaves the inner stream unchanged; over an inner stream of length    *)
(* >= 32 it succeeds and leaves the inner stream unchanged.                 *)
ValidArgs(args) == ~args[1] /\ args[3] >= 32 /\ args[4] >= 12 /\ args[4] <= 32

C9_ConstructStep ==
    (ret'.op = "construct" /\ ValidArgs(ret'.args))
    => /\ Len(inner) = 0
            => /\ ret'.err = "" /\ cs'.alive
               /\ inner' \in generate_random(32)
               /\ cs'.key = ECB(ret'.args[2], inner')
       /\ (Len(inner) >= 1 /\ Len(inner) <= 31)
            => ret'.err = "InvalidArgument" /\ ~cs'.alive /\ inner' = inner
       /\ Len(inner) >= 32
            => ret'.err = "" /\ cs'.alive /\ inner' = inner

C9_HeaderOnOpen == [][C9_ConstructStep]_vars

\* a construction with valid arguments has failed over a 31-byte inner stream
C9_Witness ==
    /\ ret.op = "construct" /\ ValidArgs(ret.args)
    /\ Len(inner) = 31 /\ ret.err = "InvalidArgument" /\ ~cs.alive

(* C8: read_block and write_block with a block number greater than 2^31 - 1  *)
(* fail with StreamTooLong and leave the inner stream unchanged; every      *)
(* block number in 0 .. 2^31 - 1 passes the check.                          *)
C8_Checked ==
    /\ ret.op \in {"read_block", "write_block"}
          => (ret.err = "StreamTooLong" <=> ret.args[1].hi >= 1)
    /\ \A b \in LimitBlocks : TooLong(b) <=> b.hi >= 1

C8_StreamTooLong ==
    [][ret'.err = "StreamTooLong" => inner' = inner]_vars /\ []C8_Checked

\* read_block(2^31 - 1) has passed the check and found no block
C8_Witness ==
    /\ ret.op = "read_block" /\ ret.args[1] = W(0, 2147483647)
    /\ ret.err = "" /\ ret.val = 0 /\ Len(inner) > 32

(* C10 as claimed: every callback of the operation table returns to the      *)
(* host: zero (for read and write, and for the xattr queries, a             *)
(* non-negative byte count) or a negative errno; no exception, that of a    *)
(* failure to build the per-thread facade included, leaves a callback.      *)
Callbacks ==
    {"statfs", "getattr", "opendir", "releasedir", "readdir", "create", "open",
     "release", "read", "write", "flush", "truncate", "ftruncate", "unlink",
     "mkdir", "rmdir", "chmod", "chown", "symlink", "link", "readlink",
     "rename", "fsync", "utimens", "listxattr", "getxattr", "setxattr",
     "removexattr"}

C10_NoEscape ==
    ret.op \in Callbacks
    => /\ ret.err = ""
       /\ ret.val <= 0 \/ ret.op \in {"read", "write", "listxattr", "getxattr"}

(* C11: every data-bearing callback holds the File's lock for the whole of   *)
(* its stream operation: read holds it shared, write, flush, ftruncate,     *)
(* truncate and fsync hold it exclusive; the stream operation starts only   *)
(* after the lock is acquired and the lock is released only after the       *)
(* stream operation has finished.                                           *)
HoldsShared(t) == t \in file.readers[file.target[t]]
HoldsExclusive(t) ==
    file.writers[file.target[t]] = {t} /\ file.readers[file.target[t]] = {}

C11_LockedInStream ==
    \A t \in Threads :
        file.pc[t] \in {"locked", "stream", "finished"}
        => IF file.op[t] = "read" THEN HoldsShared(t) /\ ~HoldsExclusive(t)
           ELSE HoldsExclusive(t)

C11_ReleaseStep ==
    \A t \in Threads, f \in Files :
        (t \in file.readers[f] \cup file.writers[f]
            /\ t \notin file'.readers[f] \cup file'.writers[f])
        => file.pc[t] = "finished" /\ file'.pc[t] \in {"idle", "closing"}

C11_AcquireStep ==
    \A t \in Threads :
        file'.pc[t] = "stream" => file.pc[t] \in {"locked", "stream"}

C11_LockHeld ==
    []C11_LockedInStream /\ [][C11_ReleaseStep /\ C11_AcquireStep]_vars

\* a write is inside its stream operation, holding the lock another thread's
\* read waits for
C11_Witness ==
    /\ file.pc[1] = "stream" /\ file.op[1] = "write" /\ file.writers[0] = {1}
    /\ file.pc[2] = "entered" /\ file.op[2] = "read"

(* C12 as claimed: two concurrent data-bearing operations of different       *)
(* threads on the same File are serialized by the File's lock: their        *)
(* stream sections never overlap, for every pair of operations, two reads   *)
(* included.                                                                *)
C12_Serialized == \A f \in Files : Cardinality(file.users[f]) <= 1

(* C13 as claimed: for a mount whose version is not 4, or whose master key   *)
(* is not 96 bytes long, no callback obtains a facade: get_local_filesystem *)
(* throws InvalidArgument on every call of every thread, constructs nothing *)
(* and stores nothing thread-locally.                                       *)
BadMount == pool.mount.version # 4 \/ pool.mount.key_size # 96

C13_BadMountNoFacade ==
    (pool.mount.ctx /\ BadMount /\ pool.last.thread # 0)
    => /\ pool.last.throws = "InvalidArgument" /\ pool.last.facade = 0
       /\ \A t \in Threads : StoredFacade(t) = 0

(* C13 within the first mount of the process (no facade of an earlier mount *)
(* is left in a thread).                                                    *)
C13_FirstMount ==
    (pool.mount.ctx /\ pool.mount.epoch = 1 /\ BadMount /\ pool.last.thread # 0)
    => /\ pool.last.throws = "InvalidArgument" /\ pool.last.facade = 0
       /\ pool.facades = {} /\ pool.built = 0
       /\ \A t \in Threads : StoredFacade(t) = 0

(* C14 as claimed: each thread constructs at most one facade for the mount,  *)
(* get_local_filesystem returns that same instance on every later call of   *)
(* the thread, and no facade instance is returned to two threads.           *)
ConstructedBy(t, e) == {f \in pool.facades : f.thread = t /\ f.epoch = e}
FacadeOf(id) == CHOOSE f \in pool.facades : f.id = id

C14_SameInstance ==
    \A g, h \in pool.given :
        (g[2] = h[2] /\ FacadeOf(g[1]).epoch = FacadeOf(h[1]).epoch) => g[1] = h[1]

C14_NotShared ==
    \A g, h \in pool.given : g[1] = h[1] => g[2] = h[2]

C14_Original ==
    /\ \A t \in Threads, e \in 1..MaxMounts : Cardinality(ConstructedBy(t, e)) <= 1
    /\ C14_SameInstance
    /\ C14_NotShared

(* C14 as amended: each thread keeps at most one facade for the mount (on    *)
(* a build without thread_local, a facade whose pthread_setspecific failed  *)
(* is destroyed before get_local_filesystem throws, and the thread's next   *)
(* call constructs another); the rest as claimed.                           *)
C14_OneFacadeKept ==
    /\ \A t \in Threads, e \in 1..MaxMounts :
          Cardinality({f \in ConstructedBy(t, e) :
                          f.id \in pool.alive \/ \E g \in pool.given : g[1] = f.id})
             <= 1
    /\ C14_SameInstance
    /\ C14_NotShared

\* a thread has been given, again, the facade it built for the mount, while
\* another thread has its own
C14_Witness ==
    /\ pool.last.thread = 1 /\ pool.last.facade # 0
    /\ <<pool.last.facade, 1>> \in pool.given
    /\ \E g \in pool.given : g[2] = 2 /\ g[1] # pool.last.facade
                               /\ FacadeOf(g[1]).epoch = pool.mount.epoch
    /\ FacadeOf(pool.last.facade).epoch = pool.mount.epoch
    /\ ret.op = "get_local_filesystem" /\ pool.built = 2

(* C15 as claimed: a per-thread facade is destroyed when its thread exits or *)
(* when the mount is torn down: after destroy() no facade built for that    *)
(* mount is alive, and a thread reused for a later mount gets a facade      *)
(* built from the later mount's parameters.                                 *)
C15_FacadeLifetime ==
    /\ \A f \in pool.facades : f.thread \in pool.exited => f.id \notin pool.alive
    /\ (~pool.mount.ctx /\ pool.mount.epoch > 0)
       => \A f \in pool.facades : f.epoch = pool.mount.epoch => f.id \notin pool.alive
    /\ pool.last.facade # 0 => FacadeOf(pool.last.facade).epoch = pool.mount.epoch

-----------------------------------------------------------------------------
(* Utilities: statfs name limit, base32, split, endian conversion.
   Specification SpecUtil applies one of them to an input drawn from a bounded
   set and records the call in ret; the functions keep no state, so a
   behaviour is one call, followed by the inverse conversion where there is
   one. *)

UtilVars == <<inner, cs, logical, written, tampered, writes, fuse, file, pool>>

\* an unsigned long holding the mathematical value x of a subtraction:
\* x itself when x >= 0, and 2^64 + x (wraps) when x < 0
unsigned_long(x) == [wraps |-> x < 0, v |-> x]

\* buf->f_namemax = buf->f_namemax * 5 / 8 - 16
f_namemax(host_namemax) == unsigned_long((host_namemax * 5) \div 8 - 16)

\* number of base32 symbols for n bytes: ceil(8n/5), no padding
Base32Length(n) == (8 * n + 4) \div 5

\* length of the underlying name of a plaintext component of L bytes:
\* base32(synth_iv[16] || ciphertext[L] || tag[16])
NameWireLength(L) == Base32Length(16 + L + 16)

\* statfs: the host's statvfs fills buf, then f_namemax is adjusted
statvfs(host_namemax) ==
    /\ ret = NoCall
    /\ ret' = Outcome("statvfs", <<host_namemax>>, 0, <<f_namemax(host_namemax)>>, "")
    /\ UNCHANGED UtilVars

\* a component of L bytes, allowed by the limit statfs reported, is encoded
EncodeName(host_namemax, L) ==
    /\ ret = NoCall
    /\ f_namemax(host_namemax).wraps \/ L <= f_namemax(host_namemax).v
    /\ ret' = Outcome("encode_name", <<host_namemax, L>>, NameWireLength(L),
                      <<f_namemax(host_namemax)>>, "")
    /\ UNCHANGED UtilVars

\* the base32 alphabet A-Z 2-7
Alphabet ==
    <<"A", "B", "C", "D", "E", "F", "G", "H", "I", "J", "K", "L", "M", "N", "O", "P",
      "Q", "R", "S", "T", "U", "V", "W", "X", "Y", "Z", "2", "3", "4", "5", "6", "7">>

\* the number made of the bits first .. first + count - 1 of a sequence of
\* units of the given width; bit 0 is the most significant bit of the first
\* unit, and the bits past the end are zero
BitsAt(units, width, first, count) ==
    LET BitAt(i) ==
            IF i \div width < Len(units)
            THEN (units[i \div width + 1] \div (2 ^ (width - 1 - (i % width)))) % 2
            ELSE 0
        RECURSIVE Sum(_)
        Sum(j) == IF j = count THEN 0
                  ELSE BitAt(first + j) * 2 ^ (count - 1 - j) + Sum(j + 1)
    IN Sum(0)

\* base32_encode: every 5 bits of the input, the last group filled with zero
\* bits, give one symbol; no padding symbol is written
base32_encode_whole_groups(b) ==
    [k \in 1..((8 * Len(b)) \div 5) |-> Alphabet[BitsAt(b, 8, 5 * (k - 1), 5) + 1]]
base32_encode(b) ==
    [k \in 1..((8 * Len(b) + 4) \div 5) |-> Alphabet[BitsAt(b, 8, 5 * (k - 1), 5) + 1]]

\* the 5-bit value of a symbol
SymbolValue(c) == (CHOOSE i \in 1..32 : Alphabet[i] = c) - 1

\* base32_decode: every whole 8 bits of the symbols' bits give one byte
base32_decode(symbols) ==
    LET values == [k \in 1..Len(symbols) |-> SymbolValue(symbols[k])]
    IN [m \in 1..((5 * Len(symbols)) \div 8) |-> BitsAt(values, 5, 8 * (m - 1), 8)]

\* split: the runs of characters between separators, empty runs dropped
RECURSIVE SplitRec(_, _, _)
SplitRec(s, c, cur) ==
    LET run == IF cur = <<>> THEN <<>> ELSE <<cur>>
    IN IF s = <<>> THEN run
       ELSE IF Head(s) = c THEN run \o SplitRec(Tail(s), c, <<>>)
       ELSE SplitRec(Tail(s), c, Append(cur, Head(s)))

split_on_slash(s, c) == SplitRec(s, "/", <<>>)
split(s, c) == SplitRec(s, c, <<>>)

\* the strings over an alphabet up to a length
StringsUpTo(S, n) == UNION {[1..k -> S] : k \in 0..n}

Base32Bytes == {0, 1, 170, 255}
SplitChars == {"/", "a", " "}
\* the uint32 values with bytes drawn from a few, bit 31 clear or set
EndianValues ==
    LET bytes == {0, 1, 171, 205, 239, 255}
    IN {W(h, b1 + 256 * b2 + 65536 * b3 + 16777216 * b4) :
            h \in 0..1, b1 \in bytes, b2 \in bytes, b3 \in bytes, b4 \in {0, 1, 127}}

Base32Encode(b) ==
    /\ ret = NoCall
    /\ ret' = Outcome("base32_encode", <<b>>, 0, base32_encode(b), "")
    /\ UNCHANGED UtilVars

\* the output of the last base32_encode is decoded
Base32Decode ==
    /\ ret.op = "base32_encode"
    /\ ret' = Outcome("base32_decode", <<ret.args[1], ret.out>>, 0,
                      base32_decode(ret.out), "")
    /\ UNCHANGED UtilVars

Split(s, c) ==
    /\ ret = NoCall
    /\ ret' = Outcome("split", <<s, c>>, 0, split(s, c), "")
    /\ UNCHANGED UtilVars

ToLittleEndian(x) ==
    /\ ret = NoCall
    /\ ret' = Outcome("to_little_endian", <<x>>, 0, to_little_endian(x), "")
    /\ UNCHANGED UtilVars

\* the bytes the last to_little_endian wrote are read back
FromLittleEndian ==
    /\ ret.op = "to_little_endian"
    /\ ret' = Outcome("from_little_endian", <<ret.args[1], ret.out>>, 0,
                      <<from_little_endian(ret.out)>>, "")
    /\ UNCHANGED UtilVars

NextUtil ==
    \/ ret = NoCall /\ \E h \in 0..MaxHostNamemax : statvfs(h)
    \/ ret = NoCall /\ \E h \in 0..MaxHostNamemax, L \in 0..MaxHostNamemax : EncodeName(h, L)
    \/ ret = NoCall /\ \E b \in StringsUpTo(Base32Bytes, MaxBytes) : Base32Encode(b)
    \/ Base32Decode
    \/ ret = NoCall /\ \E s \in StringsUpTo(SplitChars, MaxStr), c \in SplitChars : Split(s, c)
    \/ ret = NoCall /\ \E x \in EndianValues : ToLittleEndian(x)
    \/ FromLittleEndian

SpecUtil == Init /\ [][NextUtil]_vars

(* C16: statfs reports f_namemax = host_namemax * 5 / 8 - 16, and every
   component within the reported limit encodes, as
   base32(synth_iv[16] || ciphertext[L] || tag[16]), to an underlying name no
   longer than host_namemax. *)
C16_NamemaxSufficient ==
    /\ ret.op = "statvfs"
         => /\ ~ret.out[1].wraps
            /\ ret.out[1].v = (ret.args[1] * 5) \div 8 - 16
    /\ ret.op = "encode_name" => ret.val <= ret.args[1]

\* the same for the hosts whose limit is 255 alone
C16_Host255 ==
    (ret.op = "encode_name" /\ ret.args[1] = 255) => ret.val <= 255

\* the overhead the reported limit accounts for: components within the limit
\* encode to at most 26 symbols more than the host allows
C16_Excess ==
    (ret.op = "encode_name" /\ ~ret.out[1].wraps) => ret.val <= ret.args[1] + 26

(* C17: base32_decode(base32_encode(b)) = b, and base32_encode(b) is made of
   exactly ceil(8 * len(b) / 5) symbols of the alphabet A-Z 2-7, none of them a
   padding symbol. *)
AlphabetSymbols == {Alphabet[i] : i \in 1..32}

Runs(s, c) ==
    {r \in (1..Len(s)) \X (1..Len(s)) :
        /\ r[1] <= r[2]
        /\ \A k \in r[1]..r[2] : s[k] # c
        /\ r[1] = 1 \/ s[r[1] - 1] = c
        /\ r[2] = Len(s) \/ s[r[2] + 1] = c}

C18_SplitRuns ==
    ret.op = "split" =>
        LET s == ret.args[1]
            c == ret.args[2]
            runs == Runs(s, c)
        IN /\ Len(ret.out) = Cardinality(runs)
           /\ \A r \in runs :
                ret.out[Cardinality({q \in runs : q[1] < r[1]}) + 1]
                    = SubSeq(s, r[1], r[2])
           /\ \A k \in 1..Len(ret.out) :
                /\ ret.out[k] # <<>>
                /\ \A j \in 1..Len(ret.out[k]) : ret.out[k][j] # c
           /\ (\A k \in 1..Len(s) : s[k] = c) => ret.out = <<>>
           /\ (s # <<>> /\ \A k \in 1..Len(s) : s[k] # c) => ret.out = <<s>>

\* a string with a leading, a doubled and a trailing separator was split
C18_Witness ==
    /\ ret.op = "split"
    /\ ret.args = << <<"a", " ", " ", "/", "a">>, " " >>
    /\ ret.out = << <<"a">>, <<"/", "a">> >>

(* C19: to_little_endian(x) writes byte k = (x >> 8k) mod 256, least
   significant first, and from_little_endian reads x back. *)
\* byte k (0..3) of the uint32 W(hi, lo)
ByteOf(x, k) ==
    IF k = 3 THEN (x.lo \div 16777216) + 128 * x.hi
    ELSE (x.lo \div (256 ^ k)) % 256

C19_EndianRoundTrip ==
    /\ ret.op = "to_little_endian"
         => /\ Len(ret.out) = 4
            /\ \A k \in 0..3 : ret.out[k + 1] = ByteOf(ret.args[1], k)
    /\ ret.op = "from_little_endian" => ret.out[1] = ret.args[1]

\* 0xABCDEF with bit 31 set went through both conversions
C19_Witness ==
    /\ ret.op = "from_little_endian"
    /\ ret.args[1] = W(1, 11259375)
    /\ ret.args[2] = <<239, 205, 171, 128>>

-----------------------------------------------------------------------------
(* Structural corruption: a stream is opened over stored bytes of any length,
   and the inner stream may return more bytes than read_block asked for. *)

\* read_block when the inner stream's read returns rc bytes, more than the
\* underlying block size it was asked for
ReadBlockOverlong(block_number, rc) ==
    LET Result(val, out, e) == Outcome("read_block", <<block_number, rc>>, val, out, e)
        underlying_block_size == get_underlying_block_size(cs.block_size, cs.iv_size)
    IN  /\ cs.alive
        /\ rc > underlying_block_size
        /\ IF TooLong(block_number)
           THEN ret' = Result(0, <<>>, "StreamTooLong")
           ELSE IF rc <= mac_size + cs.iv_size
           THEN ret' = Result(0, <<>>, "")
           ELSE ret' = Result(0, <<>>, "InvalidArgument")
        /\ UNCHANGED <<inner, cs, logical, written, tampered, writes, fuse, file, pool>>

NextCorrupt ==
    \/ \E k \in MasterKeys, bp \in BlockParams, check \in BOOLEAN :
          ~cs.alive /\ Construct(FALSE, k, bp[1], bp[2], check)
    \/ \E i \in 0..MaxBlock : ReadBlock(Block(i))
    \/ Size
    \/ \E i \in 0..MaxBlock, extra \in 1..2 :
          ReadBlockOverlong(Block(i),
              get_underlying_block_size(cs.block_size, cs.iv_size) + extra)

SpecCorrupt == InitOpen /\ [][NextCorrupt]_vars

(* C20: a stored file with a non-canonical trailing residue (0 < r <=
   iv_size + 16 bytes after the last whole block), or an inner read that
   returns more than underlying_block_size bytes, makes read_block / size()
   fail with CorruptedStream. *)
\* the bytes after the last whole block
Residue ==
    (Len(inner) - header_size)
        % get_underlying_block_size(cs.block_size, cs.iv_size)

NonCanonicalResidue ==
    /\ cs.alive
    /\ Len(inner) > header_size
    /\ Residue \in 1..(cs.iv_size + mac_size)

\* the number of the block the residue belongs to
ResidueBlock ==
    (Len(inner) - header_size)
        \div get_underlying_block_size(cs.block_size, cs.iv_size)

C20_ResidueReported ==
    /\ (ret.op = "size" /\ NonCanonicalResidue) => ret.err = "CorruptedStream"
    /\ (ret.op = "read_block" /\ Len(ret.args) = 1 /\ NonCanonicalResidue
          /\ ret.args[1] = Block(ResidueBlock))
         => ret.err = "CorruptedStream"

C20_OverlongReported ==
    (ret.op = "read_block" /\ Len(ret.args) = 2) => ret.err = "CorruptedStream"

C20_CorruptedStream == C20_ResidueReported /\ C20_OverlongReported

\* what the code does instead: the residue reads as an empty block and counts
\* for nothing in size(), and the overlong read is an InvalidArgument
C20_Observed ==
    /\ (ret.op = "size" /\ NonCanonicalResidue)
         => /\ ret.err = ""
            /\ ret.val = ResidueBlock * cs.block_size
    /\ (ret.op = "read_block" /\ Len(ret.args) = 1 /\ NonCanonicalResidue
          /\ ret.args[1] = Block(ResidueBlock))
         => (ret.err = "" /\ ret.val = 0)
    /\ (ret.op = "read_block" /\ Len(ret.args) = 2) => ret.err = "InvalidArgument"
    /\ ret.err # "CorruptedStream"

-----------------------------------------------------------------------------
(* C21: every block that write_block stores for a plaintext that is not
   all-zero starts with an IV that is not all-zero, so its stored bytes are
   never all zero and read_block does not take the sparse fast path for it. *)
\* the stored bytes of block b, as far as the inner stream holds them
StoredBytes(b) ==
    StreamRead(inner, header_size + b * (cs.block_size + cs.iv_size + mac_size),
               cs.block_size + cs.iv_size + mac_size)

\* the latest write_block of block b had a plaintext with a non-zero byte
NonZeroWritten(b) ==
    /\ written[b].n > 0
    /\ \E k \in 1..written[b].n : written[b].p[k] # Plain(0)

C21_NonZeroIv ==
    \A b \in 0..MaxBlock :
        (cs.alive /\ NonZeroWritten(b)) =>
            /\ Len(StoredBytes(b)) >= cs.iv_size + mac_size + written[b].n
            /\ \E k \in 1..cs.iv_size : StoredBytes(b)[k] # Plain(0)
            /\ (ret.op = "read_block" /\ ret.args[1] = Block(b) /\ ret.err = "")
                 => (ret.val > 0 /\ \E k \in 1..Len(ret.out) : ret.out[k] # Plain(0))

\* a block of sevens was written and read back
C21_Witness ==
    /\ ret.op = "read_block"
    /\ ret.args[1] = Block(1)
    /\ NonZeroWritten(1)
    /\ ret.err = ""
    /\ ret.val = cs.block_size
    /\ ret.out = [k \in 1..cs.block_size |-> Plain(7)]

(* C22: the header of an empty file is generated on the first write: an empty
   underlying file over which the crypt stream is constructed and then only
   read still has underlying size 0. *)
C22_HeaderOnFirstWrite == writes = 0 => Len(inner) = 0

\* what the code does instead: the constructor writes the header, so a
\* constructed stream always lies over at least the 32 header bytes
C22_HeaderOnConstruct == cs.alive => Len(inner) >= header_size

(* C23: constructing the crypt stream with iv_size outside 12..32, with
   block_size < 32 or with a null inner stream fails with InvalidArgument, and
   no object is built and no header is generated or written. *)
C23_ConstructStep ==
    (ret'.op = "construct" /\ ~ValidArgs(ret'.args))
    => /\ ret'.err = "InvalidArgument"
       /\ ~cs'.alive
       /\ inner' = inner

C23_BadArguments ==
    /\ [][C23_ConstructStep]_vars
    /\ [](\A bp \in BadParams : ~ValidArgs(<<FALSE, "K1", bp[1], bp[2], TRUE>>))

\* a construction with an IV size of 33 has failed over an empty inner stream
C23_Witness ==
    /\ ret.op = "construct"
    /\ ~ret.args[1] /\ ret.args[3] = 32 /\ ret.args[4] = 33
    /\ ret.err = "InvalidArgument"
    /\ ~cs.alive
    /\ Len(inner) = 0

(* C24: on POSIX, readdir passes to the filler every name the traverser
   yields, in order, except "." and ".."; if the filler returns a non-zero rc
   it stops at once and returns -|rc|, otherwise it returns 0 after the last
   entry; a null directory handle yields -EFAULT with no filler call. *)
\* the names of a listing other than "." and ".."
RealNames(entries) ==
    LET NotDot(n) == n # "." /\ n # ".."
    IN SelectSeq(entries, NotDot)

C24_Readdir ==
    ret.op = "readdir" =>
        LET names == RealNames(ret.args[1])
            stop_at == ret.args[2]
            rc == ret.args[3]
        IN /\ fuse.dh = 0 => (ret.val = -14 /\ ret.out = <<>>)
           /\ (fuse.dh # 0 /\ ret.args[4] = 0) =>
                IF stop_at \in 1..Len(names)
                THEN /\ ret.out = SubSeq(names, 1, stop_at)
                     /\ ret.val = (IF rc < 0 THEN rc ELSE 0 - rc)
                     /\ ret.val < 0
                ELSE ret.out = names /\ ret.val = 0
           /\ \A k \in 1..Len(ret.out) : ret.out[k] # "." /\ ret.out[k] # ".."

\* the filler has returned 2 at its second call, for the name after ".."
C24_Witness ==
    /\ ret.op = "readdir"
    /\ fuse.dh # 0
    /\ ret.args = << <<"a", "..", "b", "a">>, 2, 2, 0 >>
    /\ ret.out = <<"a", "b">>
    /\ ret.val = -2

(* C25: with check = FALSE read_block never fails with MessageVerification: for
   a block of r > iv_size + 16 stored bytes that fail verification it returns
   r - iv_size - 16 and the decrypted bytes; with check = TRUE the same block
   always fails with MessageVerification. *)
\* the bytes decrypted from the stored bytes of block i
DecryptedBytes(i) ==
    LET off == 32 + i * (cs.block_size + cs.iv_size + 16)
        r == StoredLength(i)
    IN GcmDecrypt(cs.key, SubSeq(inner, off + 1, off + cs.iv_size),
                  SubSeq(inner, off + cs.iv_size + 1, off + r - 16))

C25_CheckFlag ==
    /\ (ret.op = "read_block" /\ ~cs.check) => ret.err # "MessageVerification"
    /\ (IsRead /\ Flipped(ReadIndex) /\ StoredLength(ReadIndex) > cs.iv_size + 16)
         => IF cs.check
            THEN ret.err = "MessageVerification"
            ELSE /\ ret.err = ""
                 /\ ret.val = StoredLength(ReadIndex) - cs.iv_size - 16
                 /\ ret.out = DecryptedBytes(ReadIndex)
                 /\ Len(ret.out) = ret.val

\* an unchecked stream has read a block of sevens with a bit flipped in its tag
C25_Witness ==
    /\ IsRead /\ ReadIndex = 0 /\ Flipped(0) /\ ~cs.check
    /\ written[0].n = cs.block_size /\ ~is_all_zeros(written[0].p)
    /\ ret.err = "" /\ ret.val = cs.block_size
    /\ ret.out = written[0].p

(* C26: read_block and size() agree on every underlying length: with every
   block verifying, read_block(i) returns block_size for every block before the
   last non-empty one, the rest of size() for that one and 0 at or past the
   end, so that the lengths read_block returns add up to size(). *)
\* the length read_block(i) has to return for size() to be the sum
Share(i) ==
    LET size == calculate_real_size(Len(inner), cs.block_size, cs.iv_size)
    IN Min(cs.block_size, Max(0, size - i * cs.block_size))

\* the plaintext length of the stored bytes of block i
ReadLength(i) ==
    IF StoredLength(i) > cs.iv_size + 16 THEN StoredLength(i) - cs.iv_size - 16 ELSE 0

RECURSIVE SumReadLengths(_)
SumReadLengths(i) == IF i < 0 THEN 0 ELSE ReadLength(i) + SumReadLengths(i - 1)

C26_ReadAgreesWithSize ==
    /\ (IsRead /\ Len(ret.args) = 1 /\ ret.err = "")
         => /\ ret.val = Share(ReadIndex)
            /\ ret.val = ReadLength(ReadIndex)
            /\ PastEnd(ReadIndex) => ret.val = 0
    /\ (ret.op = "size" /\ cs.alive)
         => /\ ret.val = SumReadLengths(MaxBlock + 2)
            /\ \A i \in 0..(MaxBlock + 2) :
                 (\E j \in (i + 1)..(MaxBlock + 2) : ReadLength(j) > 0)
                    => ReadLength(i) = cs.block_size

\* read_block(1) has returned the 3 bytes of a second block that ends inside
\* its ciphertext, after a whole first block
C26_Witness ==
    /\ IsRead /\ Len(ret.args) = 1 /\ ReadIndex = 1
    /\ Len(inner) = 32 + (cs.block_size + cs.iv_size + 16) + cs.iv_size + 16 + 3
    /\ ret.err = "" /\ ret.val = 3
    /\ calculate_real_size(Len(inner), cs.block_size, cs.iv_size) = cs.block_size + 3

(* C27: a File lock acquired by a callback is always released before the
   callback returns, on the success path and on every error path: after any
   callback returns it holds no lock, so a later operation on the same File
   can acquire the lock; in truncate-by-path the unlock happens before the
   temporary File is closed. *)
HoldsLock(t, f) == t \in file.readers[f] \cup file.writers[f]

C27_ReleasedOnReturn ==
    \A t \in Threads :
        /\ file.pc[t] \in {"idle", "closing"} => \A f \in Files : ~HoldsLock(t, f)
        /\ file.pc[t] = "idle" => t \notin file.open

C27_LockFree ==
    (\A t \in Threads : file.pc[t] = "idle")
    => \A f \in Files : CanLock(f, TRUE) /\ CanLock(f, FALSE)

C27_CloseStep ==
    \A t \in Threads :
        (t \in file.open /\ t \notin file'.open)
        => /\ file.readers[t] = {} /\ file.writers[t] = {}
           /\ file'.pc[t] = "idle"

C27_LockReleased ==
    /\ [](C27_ReleasedOnReturn /\ C27_LockFree)
    /\ [][C27_CloseStep]_vars

\* a truncate whose resize threw has unlocked and closed its File and returned
\* the error, and nothing is locked
C27_Witness ==
    /\ ret.op = "truncate" /\ ret.val = -5
    /\ \A t \in Threads : file.pc[t] = "idle"
    /\ file.open = {}
    /\ \A f \in Files : file.readers[f] = {} /\ file.writers[f] = {}

(* C28: every File created by a successful open or create is stored in
   info->fh and destroyed exactly once, by release; when open or create fails
   no File remains allocated and info->fh is not written; the temporary File of
   truncate(path, len) is closed before truncate returns, and truncate with
   len < 0 returns -EINVAL without opening a file or building a facade. *)
\* the Files allocated are exactly the one of the handle, if it is open
C28_FilesOfHandles == fuse.files = (IF fuse.fh # 0 THEN 1 ELSE 0)

C28_Step ==
    /\ (ret'.op \in {"open", "create"} /\ fuse.fh = 0)
         => IF ret'.err = "" /\ ret'.val = 0
            THEN fuse'.fh # 0 /\ fuse'.files = fuse.files + 1
            ELSE fuse'.fh = fuse.fh /\ fuse'.files = fuse.files
    /\ (ret'.op = "release" /\ fuse.fh # 0)
         => fuse'.fh = 0 /\ fuse'.files = fuse.files - 1
    /\ ret'.op = "truncate"
         => /\ fuse'.files = fuse.files /\ fuse'.fh = fuse.fh
            /\ ret'.args[1] < 0 => (ret'.val = -22 /\ ret'.err = "" /\ fuse' = fuse)
    /\ ret'.op \notin {"open", "create", "release"} => fuse'.files = fuse.files

FileCallbacks == {"read", "write", "flush", "ftruncate", "fsync"}

C29_NullArguments ==
    /\ (ret.op \in FileCallbacks /\ fuse.fh = 0)
         => (ret.val = -14 /\ ret.err = "" /\ ret.out = <<>>)
    /\ (ret.op = "statfs" /\ ret.args[1] = 0)
         => (ret.val = -14 /\ ret.err = "" /\ ret.out = <<>>)

\* the part of the file callbacks: nothing of the callback layer, the Files or
\* the streams changes
C29_NullHandleStep ==
    (ret'.op \in FileCallbacks /\ fuse.fh = 0)
    => /\ ret'.val = -14 /\ ret'.err = "" /\ ret'.out = <<>>
       /\ fuse' = fuse /\ file' = file /\ inner' = inner /\ cs' = cs

C29_NullHandles == [][C29_NullHandleStep]_vars

\* statfs with a null buffer where the facade can be built
C29_StatfsMounted ==
    (ret.op = "statfs" /\ ret.args[1] = 0 /\ fuse.version = 4 /\ fuse.key_size = 96)
    => (ret.val = -14 /\ ret.err = "" /\ ret.out = <<>> /\ fuse.opt_fs)

(* C30: on success the write callback returns a non-negative value equal to
   the requested size, and the read callback a non-negative value equal to the
   bytes read, for every request size up to the max_write = 2^32 - 1 that init
   advertises. *)
Succeeded == ret.out = <<"lock", ret.op, "unlock">>

C30_TransferCount ==
    /\ (ret.op = "write" /\ Succeeded)
         => (ret.val >= 0 /\ W(0, ret.val) = ret.args[1])
    /\ (ret.op = "read" /\ Succeeded)
         => (ret.val >= 0 /\ W(0, ret.val) = ret.args[2])

\* the same for the sizes below 2^31 alone
C30_Below2G ==
    /\ (ret.op = "write" /\ Succeeded /\ ret.args[1].hi = 0)
         => (ret.val >= 0 /\ W(0, ret.val) = ret.args[1])
    /\ (ret.op = "read" /\ Succeeded /\ ret.args[2].hi = 0)
         => (ret.val >= 0 /\ W(0, ret.val) = ret.args[2])

====
